---- MODULE Spec2Model ----
(***************************************************************************)
(* Answer verification and the response ledger of the memocard API:        *)
(* MemocardService.verify_answer, the catalog operations of                *)
(* MemocardService and the repositories they call on the memocards and     *)
(* responses collections.                                                  *)
(***************************************************************************)
EXTENDS Integers, Sequences, FiniteSets, TLC

VARIABLES
    catalog,     \* memocards collection: card id -> document, or NoCard
    allocated,   \* card ids (ObjectIds) the store has already handed out
    responses,   \* responses collection, in insertion order
    pc,          \* position of each request inside verify_answer
    req,         \* arguments of the verify_answer call a request runs
    memocard,    \* the document find_by_id returned to the request
    graded,      \* attempts, is_correct, feedback and answer held by the request
    result,      \* how the request's last verify_answer call ended
    adminOps,    \* number of catalog operations performed so far
    reply        \* what the step just taken returned, when it was a query

vars == <<catalog, allocated, responses, pc, req, memocard, graded, result, adminOps,
          reply>>

(***************************************************************************)
(* Python values.  Every value carries its runtime type in k.  A str is a  *)
(* sequence of characters, a list a sequence of values, a number its       *)
(* mathematical value (an int and a float of the same value are == in      *)
(* Python, and bool is a subclass of int).                                 *)
(***************************************************************************)
PyNone == [k |-> "none", v |-> 0]
Missing == [k |-> "missing", v |-> 0]
PyBool(b) == [k |-> "bool", v |-> b]
PyNum(n) == [k |-> "num", v |-> n]
PyStr(s) == [k |-> "str", v |-> s]
PyList(l) == [k |-> "list", v |-> l]

\* dict.get(key, default): Missing stands for a key the dict does not hold.
Get(x, default) == IF x = Missing THEN default ELSE x

IsNumeric(x) == x.k \in {"bool", "num"}

\* The int value of a bool or a number (True is 1, False is 0).
NumOf(x) == IF x.k = "bool" THEN (IF x.v THEN 1 ELSE 0) ELSE x.v

\* Python == on scalars.
PyEqScalar(a, b) ==
    IF IsNumeric(a) /\ IsNumeric(b) THEN NumOf(a) = NumOf(b)
    ELSE IF a.k # b.k THEN FALSE
    ELSE a.v = b.v

\* Python == on any two values; lists compare element by element.
PyEq(a, b) ==
    IF a.k = "list" /\ b.k = "list"
    THEN /\ Len(a.v) = Len(b.v)
         /\ \A i \in 1..Len(a.v) : PyEqScalar(a.v[i], b.v[i])
    ELSE IF a.k = "list" \/ b.k = "list" THEN FALSE
    ELSE PyEqScalar(a, b)

\* Python truth value.
Truthy(x) ==
    CASE x.k = "bool" -> x.v
      [] x.k = "num" -> x.v # 0
      [] x.k \in {"str", "list"} -> Len(x.v) > 0
      [] OTHER -> FALSE

\* Code points of the characters the model uses.
Ord == [c \in {" ", ",", "-", ".", "0", "1", "2", "3", "4", "5", "6", "7", "8", "9",
               "A", "B", "C", "P", "a", "b", "c", "p"} |->
         CASE c = " " -> 32 [] c = "," -> 44 [] c = "-" -> 45 [] c = "." -> 46
           [] c = "0" -> 48 [] c = "1" -> 49 [] c = "2" -> 50 [] c = "3" -> 51
           [] c = "4" -> 52 [] c = "5" -> 53 [] c = "6" -> 54 [] c = "7" -> 55
           [] c = "8" -> 56 [] c = "9" -> 57
           [] c = "A" -> 65 [] c = "B" -> 66 [] c = "C" -> 67 [] c = "P" -> 80
           [] c = "a" -> 97 [] c = "b" -> 98 [] c = "c" -> 99 [] c = "p" -> 112]

\* str.lower() on one character and on a str.
LowerChar(c) == IF Ord[c] >= 65 /\ Ord[c] <= 90
                THEN CHOOSE d \in DOMAIN Ord : Ord[d] = Ord[c] + 32
                ELSE c
Lower(s) == [i \in 1..Len(s) |-> LowerChar(s[i])]

\* Python < on two str: lexicographic by code point.
RECURSIVE StrLess(_, _)
StrLess(s, t) ==
    IF Len(t) = 0 THEN FALSE
    ELSE IF Len(s) = 0 THEN TRUE
    ELSE IF Ord[Head(s)] # Ord[Head(t)] THEN Ord[Head(s)] < Ord[Head(t)]
    ELSE StrLess(Tail(s), Tail(t))

\* Python < on two values sorted() can order.
PyLess(a, b) == IF IsNumeric(a) THEN NumOf(a) < NumOf(b) ELSE StrLess(a.v, b.v)

\* Whether < is defined between every two elements (else sorted() raises TypeError).
Sortable(l) ==
    \/ Len(l) <= 1
    \/ \A i \in 1..Len(l) : IsNumeric(l[i])
    \/ \A i \in 1..Len(l) : l[i].k = "str"

\* sorted(l): stable insertion of each element after the elements not greater.
RECURSIVE Insert(_, _)
Insert(x, l) ==
    IF Len(l) = 0 THEN <<x>>
    ELSE IF PyLess(x, Head(l)) THEN <<x>> \o l
    ELSE <<Head(l)>> \o Insert(x, Tail(l))
\* sorted() that leaves the list in the order given.
AsGiven(l) == l

\* sorted(l) for a list l that is Sortable; sorted() is stable.
RECURSIVE Sorted(_)
Sorted(l) == IF Len(l) = 0 THEN <<>> ELSE Insert(l[Len(l)], Sorted(SubSeq(l, 1, Len(l) - 1)))

\* "sep".join(texts) on a list of str.
RECURSIVE Join(_, _)
Join(texts, sep) ==
    IF Len(texts) = 0 THEN <<>>
    ELSE IF Len(texts) = 1 THEN texts[1]
    ELSE texts[1] \o sep \o Join(Tail(texts), sep)

\* The decimal digits of a natural number.
DigitChar == [d \in 0..9 |-> CHOOSE c \in DOMAIN Ord : Ord[c] = 48 + d]
RECURSIVE Digits(_)
Digits(n) == IF n < 10 THEN <<DigitChar[n]>> ELSE Digits(n \div 10) \o <<DigitChar[n % 10]>>

\* str() of a float whose value is the integer n: "5.0", "-2.0".
FloatRepr(n) == (IF n < 0 THEN <<"-">> \o Digits(-n) ELSE Digits(n)) \o <<".", "0">>

\* How an f-string renders a value.
Format(x) ==
    CASE x.k = "str" -> x.v
      [] x.k = "num" -> IF x.v < 0 THEN <<"-">> \o Digits(-x.v) ELSE Digits(x.v)
      [] x.k = "bool" -> IF x.v THEN <<"True">> ELSE <<"False">>
      [] OTHER -> <<"None">>

\* str.strip() of blanks.
RECURSIVE LStrip(_)
LStrip(s) == IF Len(s) > 0 /\ Head(s) = " " THEN LStrip(Tail(s)) ELSE s
RECURSIVE RStrip(_)
RStrip(s) == IF Len(s) > 0 /\ s[Len(s)] = " " THEN RStrip(SubSeq(s, 1, Len(s) - 1)) ELSE s
Strip(s) == RStrip(LStrip(s))

IsDigit(c) == Ord[c] >= 48 /\ Ord[c] <= 57
RECURSIVE DigitsValue(_)
DigitsValue(s) ==
    IF Len(s) = 0 THEN 0
    ELSE 10 * DigitsValue(SubSeq(s, 1, Len(s) - 1)) + (Ord[s[Len(s)]] - 48)

\* float(x): the value, or the exception float() raises.  A str parses when,
\* stripped of blanks, it is an optional sign followed by decimal digits.
Float(x) ==
    CASE IsNumeric(x) -> [error |-> "none", value |-> NumOf(x)]
      [] x.k = "str" ->
           LET t == Strip(x.v)
               neg == Len(t) > 0 /\ Head(t) = "-"
               d == IF neg THEN Tail(t) ELSE t
           IN IF Len(d) > 0 /\ \A i \in 1..Len(d) : IsDigit(d[i])
              THEN [error |-> "none", value |-> IF neg THEN -DigitsValue(d) ELSE DigitsValue(d)]
              ELSE [error |-> "ValueError", value |-> 0]
      [] OTHER -> [error |-> "TypeError", value |-> 0]

Abs(n) == IF n < 0 THEN -n ELSE n

(***************************************************************************)
(* Grading: the branches of verify_answer on the card's type.  A grading   *)
(* ends in a verdict, or in the exception that leaves verify_answer.       *)
(* feedback is a str given as a sequence of pieces: the fixed phrases,     *)
(* then the characters of what is formatted into them.                     *)
(***************************************************************************)
GoodAnswer == <<"Bonne reponse !">>
WrongPrefix == <<"Reponse incorrecte. La bonne reponse est : ">>
NotANumber == <<"Reponse invalide. La reponse doit etre un nombre.">>

Verdict(ok, fb, ans) == [error |-> "none", is_correct |-> ok, feedback |-> fb, answer |-> ans]
Raise(exc) == [error |-> exc, is_correct |-> FALSE, feedback |-> <<>>, answer |-> PyNone]

\* GradeTrueFalse whose feedback names the value submitted.
GradeTrueFalseEcho(content, answer) ==
    LET correct_answer == Get(content.correct_answer, PyNone)
        is_correct == PyEq(answer, correct_answer)
    IN Verdict(is_correct,
               IF is_correct THEN GoodAnswer
               ELSE WrongPrefix \o (IF Truthy(answer) THEN <<"Vrai">> ELSE <<"Faux">>),
               answer)

\* The true_false branch of verify_answer.
GradeTrueFalse(content, answer) ==
    LET correct_answer == Get(content.correct_answer, PyNone)
        is_correct == PyEq(answer, correct_answer)
    IN Verdict(is_correct,
               IF is_correct THEN GoodAnswer
               ELSE WrongPrefix \o (IF Truthy(correct_answer) THEN <<"Vrai">> ELSE <<"Faux">>),
               answer)

\* options[i] for an int i < len(options); a negative i counts from the end.
OptionAt(options, i) == IF i >= 0 THEN options[i + 1] ELSE options[Len(options) + i + 1]

\* The multiple_choice branch of verify_answer.
GradeMultipleChoice(content, answer) ==
    LET correct_options == Get(content.correct_options, PyList(<<>>))
        answer_list == IF answer.k = "list" THEN answer.v ELSE <<answer>>
        options == Get(content.options, PyList(<<>>))
        kept == SelectSeq(correct_options.v, LAMBDA i : NumOf(i) < Len(options.v))
        correct_texts == [j \in 1..Len(kept) |-> OptionAt(options.v, NumOf(kept[j])).v]
    IN IF correct_options.k # "list" \/ ~Sortable(answer_list) \/ ~Sortable(correct_options.v)
       THEN Raise("TypeError")
       ELSE IF PyEq(PyList(Sorted(answer_list)), PyList(Sorted(correct_options.v)))
       THEN Verdict(TRUE, GoodAnswer, answer)
       ELSE IF \E j \in 1..Len(correct_options.v) : ~IsNumeric(correct_options.v[j])
       THEN Raise("TypeError")
       ELSE IF \E j \in 1..Len(kept) : NumOf(kept[j]) < -Len(options.v)
       THEN Raise("IndexError")
       ELSE Verdict(FALSE, WrongPrefix \o Join(correct_texts, <<",", " ">>), answer)

\* GradeText that strips the surrounding whitespace of the answer.
GradeTextStripped(content, answer) ==
    LET stored == Get(content.correct_answer, PyStr(<<>>))
        case_sensitive == Get(content.case_sensitive, PyBool(FALSE))
        fold == ~Truthy(case_sensitive)
    IN IF answer.k # "str" \/ (fold /\ stored.k # "str")
       THEN Raise("AttributeError")
       ELSE LET a == IF fold THEN PyStr(Lower(Strip(answer.v))) ELSE PyStr(Strip(answer.v))
                correct_answer == IF fold THEN PyStr(Lower(stored.v)) ELSE stored
                is_correct == PyEq(a, correct_answer)
            IN Verdict(is_correct,
                       IF is_correct THEN GoodAnswer ELSE WrongPrefix \o Format(correct_answer),
                       a)

\* The text branch of verify_answer.
GradeText(content, answer) ==
    LET stored == Get(content.correct_answer, PyStr(<<>>))
        case_sensitive == Get(content.case_sensitive, PyBool(FALSE))
        fold == ~Truthy(case_sensitive)
    IN IF fold /\ (answer.k # "str" \/ stored.k # "str")
       THEN Raise("AttributeError")
       ELSE LET a == IF fold THEN PyStr(Lower(answer.v)) ELSE answer
                correct_answer == IF fold THEN PyStr(Lower(stored.v)) ELSE stored
                is_correct == PyEq(a, correct_answer)
            IN Verdict(is_correct,
                       IF is_correct THEN GoodAnswer ELSE WrongPrefix \o Format(correct_answer),
                       a)

\* GradeNumeric with the boundary left out.
GradeNumericStrict(content, answer) ==
    LET correct_answer == Float(Get(content.correct_answer, PyNum(0)))
        tolerance == Float(Get(content.tolerance, PyNum(0)))
        numeric_answer == Float(answer)
        unit == Get(content.unit, PyStr(<<>>))
        unit_suffix == IF Truthy(unit) THEN <<" ">> \o Format(unit) ELSE <<>>
    IN IF correct_answer.error # "none" THEN Raise(correct_answer.error)
       ELSE IF tolerance.error # "none" THEN Raise(tolerance.error)
       ELSE IF numeric_answer.error # "none" THEN Verdict(FALSE, NotANumber, answer)
       ELSE IF Abs(numeric_answer.value - correct_answer.value) < tolerance.value
       THEN Verdict(TRUE, GoodAnswer, answer)
       ELSE Verdict(FALSE, WrongPrefix \o FloatRepr(correct_answer.value) \o unit_suffix, answer)

\* GradeNumeric with the comparison turned round.
GradeNumericFlipped(content, answer) ==
    LET correct_answer == Float(Get(content.correct_answer, PyNum(0)))
        tolerance == Float(Get(content.tolerance, PyNum(0)))
        numeric_answer == Float(answer)
        unit == Get(content.unit, PyStr(<<>>))
        unit_suffix == IF Truthy(unit) THEN <<" ">> \o Format(unit) ELSE <<>>
    IN IF correct_answer.error # "none" THEN Raise(correct_answer.error)
       ELSE IF tolerance.error # "none" THEN Raise(tolerance.error)
       ELSE IF numeric_answer.error # "none" THEN Verdict(FALSE, NotANumber, answer)
       ELSE IF Abs(numeric_answer.value - correct_answer.value) >= tolerance.value
       THEN Verdict(TRUE, GoodAnswer, answer)
       ELSE Verdict(FALSE, WrongPrefix \o FloatRepr(correct_answer.value) \o unit_suffix, answer)

\* The numeric branch of verify_answer.
GradeNumeric(content, answer) ==
    LET correct_answer == Float(Get(content.correct_answer, PyNum(0)))
        tolerance == Float(Get(content.tolerance, PyNum(0)))
        numeric_answer == Float(answer)
        unit == Get(content.unit, PyStr(<<>>))
        unit_suffix == IF Truthy(unit) THEN <<" ">> \o Format(unit) ELSE <<>>
    IN IF correct_answer.error # "none" THEN Raise(correct_answer.error)
       ELSE IF tolerance.error # "none" THEN Raise(tolerance.error)
       ELSE IF numeric_answer.error # "none" THEN Verdict(FALSE, NotANumber, answer)
       ELSE IF Abs(numeric_answer.value - correct_answer.value) <= tolerance.value
       THEN Verdict(TRUE, GoodAnswer, answer)
       ELSE Verdict(FALSE, WrongPrefix \o FloatRepr(correct_answer.value) \o unit_suffix, answer)

MEMOCARD_TYPES == {"true_false", "multiple_choice", "text", "numeric"}

\* Lines 263-329 of verify_answer: the verdict on a card document and an answer.
Grade(card, answer) ==
    CASE card.type = "true_false" -> GradeTrueFalse(card.content, answer)
      [] card.type = "multiple_choice" -> GradeMultipleChoice(card.content, answer)
      [] card.type = "text" -> GradeText(card.content, answer)
      [] card.type = "numeric" -> GradeNumeric(card.content, answer)
      [] OTHER -> Raise("unknown_memocard_type")

(***************************************************************************)
(* The stores.                                                             *)
(***************************************************************************)
Students == {"s1", "s2"}
CardIds == {"c1", "c2"}
Requests == {1, 2}

SCHOOL_LEVELS == {"6e", "5e", "4e", "3e", "2nde", "1ere", "Terminale"}
DIFFICULTY_LEVELS == {"easy", "medium", "hard", "expert"}

\* find_by_id's None: no document has the id.
NoCard == [absent |-> TRUE]

\* Bounds of the model.
MaxResponses == 2
MaxAdminOps == 1
MaxGraded == 1
MaxSeq == 102

\* BaseRepository.find_many's default page size.
DefaultLimit == 100

\* Strings the cards and the answers are built from.
NoKeys == [statement |-> Missing, question |-> Missing, options |-> Missing,
           correct_options |-> Missing, correct_answer |-> Missing,
           case_sensitive |-> Missing, tolerance |-> Missing, unit |-> Missing]

TrueFalseKey(b) == [NoKeys EXCEPT !.statement = PyStr(<<"P">>), !.correct_answer = PyBool(b)]
ChoiceKey(correct) ==
    [NoKeys EXCEPT !.question = PyStr(<<"P">>),
                   !.options = PyList(<<PyStr(<<"A">>), PyStr(<<"B">>), PyStr(<<"C">>)>>),
                   !.correct_options = PyList(correct)]
TextKey(answer, cs) ==
    [NoKeys EXCEPT !.question = PyStr(<<"P">>), !.correct_answer = PyStr(answer),
                   !.case_sensitive = cs]
NumericKey(answer, tol, unit) ==
    [NoKeys EXCEPT !.question = PyStr(<<"P">>), !.correct_answer = PyNum(answer),
                   !.tolerance = tol, !.unit = unit]

(***************************************************************************)
(* Card documents.  A document keeps the fields the operations read:       *)
(* level, difficulty, subject, chapter, type, is_active and content        *)
(* (title, description, tags, created_by and the timestamps are stored     *)
(* and never read by them).                                                *)
(***************************************************************************)
Card(level, difficulty, subject, type, active, content) ==
    [level |-> level, difficulty |-> difficulty, subject |-> subject, chapter |-> "ch1",
     type |-> type, is_active |-> active, content |-> content]

IsStr(x) == x.k = "str"
IsListOf(x, kind) == x.k = "list" /\ \A i \in 1..Len(x.v) : x.v[i].k = kind

\* The content models of models/memocard.py, as MemocardCreate.validate_content
\* applies them: the required keys are there with their declared types, the
\* optional keys are absent or have them.  Keys a model does not declare are
\* ignored, and the content is stored as it was submitted.
ContentValid(type, content) ==
    CASE type = "true_false" ->
           IsStr(content.statement) /\ content.correct_answer.k = "bool"
      [] type = "multiple_choice" ->
           /\ IsStr(content.question)
           /\ IsListOf(content.options, "str")
           /\ IsListOf(content.correct_options, "num")
      [] type = "text" ->
           /\ IsStr(content.question)
           /\ IsStr(content.correct_answer)
           /\ content.case_sensitive.k \in {"missing", "bool"}
      [] type = "numeric" ->
           /\ IsStr(content.question)
           /\ content.correct_answer.k = "num"
           /\ content.tolerance.k \in {"missing", "num"}
           /\ content.unit.k \in {"missing", "none", "str"}
      [] OTHER -> FALSE

\* MemocardCreate's validators and the checks of create_memocard.
CreateValid(data) ==
    /\ data.level \in SCHOOL_LEVELS
    /\ data.difficulty \in DIFFICULTY_LEVELS
    /\ data.type \in MEMOCARD_TYPES
    /\ ContentValid(data.type, data.content)

\* MemocardUpdate's validators and the checks of update_memocard.  A payload
\* is the dict of the fields given a value other than None.
UpdateValid(data) ==
    /\ "level" \in DOMAIN data => data.level \in SCHOOL_LEVELS
    /\ "difficulty" \in DOMAIN data => data.difficulty \in DIFFICULTY_LEVELS

\* The fields MemocardUpdate declares, of those a card document keeps.
MemocardUpdateFields == {"level", "difficulty", "subject", "chapter", "is_active", "content"}

\* ParseUpdate that keeps every key of the body.
ParseUpdateVerbatim(body) ==
    body

\* The request body read as a MemocardUpdate, then update_memocard's dict of
\* the fields that are not None: a key the schema does not declare is dropped.
ParseUpdate(body) ==
    [f \in DOMAIN body \cap MemocardUpdateFields |-> body[f]]

\* update_one's {"$set": update}.
SetFields(doc, update) ==
    [f \in DOMAIN doc |-> IF f \in DOMAIN update THEN update[f] ELSE doc[f]]

\* Payloads the administrator submits.
CreateInputs ==
    { Card("6e", "easy", "Algebre", "true_false", TRUE, TrueFalseKey(TRUE)),
      Card("6e", "medium", "Geometrie", "multiple_choice", TRUE,
           ChoiceKey(<<PyNum(0), PyNum(2)>>)),
      Card("6e", "easy", "Algebre", "text", TRUE, TrueFalseKey(TRUE)),
      Card("6e", "trivial", "Algebre", "true_false", TRUE, TrueFalseKey(TRUE)) }

UpdateInputs ==
    { [is_active |-> FALSE],
      [difficulty |-> "trivial"],
      [content |-> TextKey(<<"P", "a">>, Missing)] }

\* Documents the collection may hold when the service starts: the collection
\* outlives the process, and documents are not validated when they are read.
\* LegacyCard was written before the type enumeration was fixed.
SeedCard == Card("6e", "easy", "Algebre", "true_false", TRUE, TrueFalseKey(TRUE))
LegacyCard == Card("6e", "easy", "Algebre", "essay", TRUE, TextKey(<<"P", "a">>, Missing))

(***************************************************************************)
(* Repositories.                                                           *)
(***************************************************************************)
Min(a, b) == IF a < b THEN a ELSE b

Reverse(l) == [i \in 1..Len(l) |-> l[Len(l) + 1 - i]]

\* BaseRepository.find_by_id on the memocards collection.
FindById(c) == catalog[c]

\* find_many that skips and limits in insertion order and sorts the page.
FindManyOldest(matching, skip, limit) ==
    Reverse(SubSeq(matching, skip + 1, Min(Len(matching), skip + limit)))

\* BaseRepository.find_many on a collection kept in created_at order: the
\* cursor sorts (newest first here), then skips, then limits.
FindMany(matching, skip, limit) ==
    SubSeq(Reverse(matching), skip + 1, Min(Len(matching), skip + limit))

\* ResponseRepository.find_responses_by_student_and_memocard.
FindResponsesByStudentAndMemocard(s, c) ==
    FindMany(SelectSeq(responses, LAMBDA row : row.student_id = s /\ row.memocard_id = c),
             0, DefaultLimit)

\* ResponseRepository.create_response: created_at, then the insert.
CreateResponse(data) == Append(responses, [data EXCEPT !.created_at = Len(responses) + 1])

(***************************************************************************)
(* verify_answer, one action for each stretch between two awaits.          *)
(***************************************************************************)
NoReq == [absent |-> TRUE]
NoGrade == [absent |-> TRUE]
NoReply == [absent |-> TRUE]

InFlight == Cardinality({r \in Requests : pc[r] \in {"counting", "inserting"}})

\* The call ends: with the response ("ok"), or with the error raised.  The
\* locals of the call are gone; its arguments stay with the request until the
\* client has the reply.
Done(r, status) ==
    /\ pc' = [pc EXCEPT ![r] = "done"]
    /\ result' = [result EXCEPT ![r] = status]
    /\ memocard' = [memocard EXCEPT ![r] = NoCard]
    /\ graded' = [graded EXCEPT ![r] = NoGrade]

\* VerifyAnswerFind without the is_active check.
VerifyAnswerFindAnyCard(r, s, c, a, t) ==
    /\ pc[r] = "idle"
    /\ \A q \in Requests : q < r => pc[q] # "idle"
    /\ req' = [req EXCEPT ![r] = [student_id |-> s, memocard_id |-> c, answer |-> a,
                                  time_spent_seconds |-> t]]
    /\ IF FindById(c) = NoCard THEN Done(r, "memocard_not_found")
       ELSE /\ pc' = [pc EXCEPT ![r] = "counting"]
            /\ memocard' = [memocard EXCEPT ![r] = FindById(c)]
            /\ UNCHANGED <<result, graded>>
    /\ UNCHANGED <<catalog, allocated, responses, adminOps>>
    /\ reply' = NoReply

\* Lines 238-255: the lookup of the card and the two checks on it.
VerifyAnswerFind(r, s, c, a, t) ==
    /\ pc[r] = "idle"
    /\ \A q \in Requests : q < r => pc[q] # "idle"
    /\ req' = [req EXCEPT ![r] = [student_id |-> s, memocard_id |-> c, answer |-> a,
                                  time_spent_seconds |-> t]]
    /\ IF FindById(c) = NoCard THEN Done(r, "memocard_not_found")
       ELSE IF ~FindById(c).is_active THEN Done(r, "inactive_memocard")
       ELSE /\ pc' = [pc EXCEPT ![r] = "counting"]
            /\ memocard' = [memocard EXCEPT ![r] = FindById(c)]
            /\ UNCHANGED <<result, graded>>
    /\ UNCHANGED <<catalog, allocated, responses, adminOps>>
    /\ reply' = NoReply

\* VerifyAnswerCount that accepts a right answer on the first attempt only.
VerifyAnswerCountFirstOnly(r) ==
    /\ pc[r] = "counting"
    /\ LET previous_responses ==
               FindResponsesByStudentAndMemocard(req[r].student_id, req[r].memocard_id)
           attempts == Len(previous_responses) + 1
           g == Grade(memocard[r], req[r].answer)
       IN IF g.error # "none"
          THEN Done(r, g.error)
          ELSE /\ pc' = [pc EXCEPT ![r] = "inserting"]
               /\ graded' = [graded EXCEPT ![r] =
                      [attempts |-> attempts, is_correct |-> g.is_correct /\ attempts = 1,
                       feedback |-> g.feedback, answer |-> g.answer]]
               /\ UNCHANGED <<result, memocard>>
    /\ UNCHANGED <<catalog, allocated, responses, req, adminOps>>
    /\ reply' = NoReply

\* Lines 257-329: the count of the previous responses, then the grading.
VerifyAnswerCount(r) ==
    /\ pc[r] = "counting"
    /\ LET previous_responses ==
               FindResponsesByStudentAndMemocard(req[r].student_id, req[r].memocard_id)
           attempts == Len(previous_responses) + 1
           g == Grade(memocard[r], req[r].answer)
       IN IF g.error # "none"
          THEN Done(r, g.error)
          ELSE /\ pc' = [pc EXCEPT ![r] = "inserting"]
               /\ graded' = [graded EXCEPT ![r] =
                      [attempts |-> attempts, is_correct |-> g.is_correct,
                       feedback |-> g.feedback, answer |-> g.answer]]
               /\ UNCHANGED <<result, memocard>>
    /\ UNCHANGED <<catalog, allocated, responses, req, adminOps>>
    /\ reply' = NoReply

\* The row verify_answer builds from what the request holds.
ResponseData(r) ==
    [student_id |-> req[r].student_id, memocard_id |-> req[r].memocard_id,
     answer |-> graded[r].answer, is_correct |-> graded[r].is_correct,
     feedback |-> graded[r].feedback, attempts |-> graded[r].attempts,
     time_spent_seconds |->
         IF req[r].time_spent_seconds # PyNone THEN req[r].time_spent_seconds ELSE Missing,
     created_at |-> 0]

SamePair(row, s, c) == row.student_id = s /\ row.memocard_id = c

\* VerifyAnswerInsert behind a unique index on (student_id, memocard_id,
\* attempts): the insert waits while a row holds the same attempt number.
VerifyAnswerInsertUnique(r) ==
    /\ pc[r] = "inserting"
    /\ \A i \in 1..Len(responses) :
           SamePair(responses[i], req[r].student_id, req[r].memocard_id)
               => responses[i].attempts # graded[r].attempts
    /\ responses' = CreateResponse(ResponseData(r))
    /\ Done(r, "ok")
    /\ UNCHANGED <<catalog, allocated, req, adminOps>>
    /\ reply' = NoReply

\* VerifyAnswerInsert that answers a repeated answer without storing it again.
VerifyAnswerInsertOnce(r) ==
    /\ pc[r] = "inserting"
    /\ responses' =
           IF \E i \in 1..Len(responses) :
                  /\ SamePair(responses[i], req[r].student_id, req[r].memocard_id)
                  /\ responses[i].answer = graded[r].answer
           THEN responses
           ELSE CreateResponse(ResponseData(r))
    /\ Done(r, "ok")
    /\ UNCHANGED <<catalog, allocated, req, adminOps>>
    /\ reply' = NoReply

\* Lines 331-346: the response document and its insertion.
VerifyAnswerInsert(r) ==
    /\ pc[r] = "inserting"
    /\ responses' = CreateResponse(ResponseData(r))
    /\ Done(r, "ok")
    /\ UNCHANGED <<catalog, allocated, req, adminOps>>
    /\ reply' = NoReply

\* respond_to_memocard hands the response, or the error, to the client.
Respond(r) ==
    /\ pc[r] = "done"
    /\ pc' = [pc EXCEPT ![r] = "idle"]
    /\ req' = [req EXCEPT ![r] = NoReq]
    /\ result' = [result EXCEPT ![r] = "none"]
    /\ UNCHANGED <<catalog, allocated, responses, memocard, graded, adminOps>>
    /\ reply' = NoReply

(***************************************************************************)
(* Catalog operations of MemocardService.                                  *)
(***************************************************************************)
\* MemocardService.create_memocard; c is the id the store assigns.
CreateMemocard(c, data) ==
    /\ adminOps < MaxAdminOps
    /\ c \notin allocated
    /\ CreateValid(data)
    /\ catalog' = [catalog EXCEPT ![c] = data]
    /\ allocated' = allocated \cup {c}
    /\ adminOps' = adminOps + 1
    /\ UNCHANGED <<responses, pc, req, memocard, graded, result>>
    /\ reply' = NoReply

\* MemocardService.update_memocard.
UpdateMemocard(c, data) ==
    /\ adminOps < MaxAdminOps
    /\ FindById(c) # NoCard
    /\ UpdateValid(ParseUpdate(data))
    /\ catalog' = [catalog EXCEPT ![c] = SetFields(catalog[c], ParseUpdate(data))]
    /\ adminOps' = adminOps + 1
    /\ UNCHANGED <<allocated, responses, pc, req, memocard, graded, result>>
    /\ reply' = NoReply

\* DeleteMemocard that also removes the responses given to the card.
DeleteMemocardCascade(c) ==
    /\ adminOps < MaxAdminOps
    /\ FindById(c) # NoCard
    /\ catalog' = [catalog EXCEPT ![c] = NoCard]
    /\ responses' = SelectSeq(responses, LAMBDA row : row.memocard_id # c)
    /\ adminOps' = adminOps + 1
    /\ UNCHANGED <<allocated, pc, req, memocard, graded, result>>
    /\ reply' = NoReply

\* MemocardService.delete_memocard.
DeleteMemocard(c) ==
    /\ adminOps < MaxAdminOps
    /\ FindById(c) # NoCard
    /\ catalog' = [catalog EXCEPT ![c] = NoCard]
    /\ adminOps' = adminOps + 1
    /\ UNCHANGED <<allocated, responses, pc, req, memocard, graded, result>>
    /\ reply' = NoReply

(***************************************************************************)
(* Queries of a student: the progress statistics and the cards to answer.  *)
(***************************************************************************)
\* student_profile.level of the users documents.
StudentLevel(s) == IF s = "s1" THEN "6e" ELSE "5e"

RECURSIVE GCD(_, _)
GCD(a, b) == IF b = 0 THEN a ELSE GCD(b, a % b)

\* The float n / d, as the fraction in lowest terms.
Ratio(n, d) == [num |-> n \div GCD(n, d), den |-> d \div GCD(n, d)]
Zero == [num |-> 0, den |-> 1]

RECURSIVE SumTimes(_)
SumTimes(rows) == IF Len(rows) = 0 THEN 0 ELSE Head(rows).time_spent_seconds.v + SumTimes(Tail(rows))

Count(rows, Test(_)) == Len(SelectSeq(rows, Test))

\* MemocardRepository.count_memocards_by_level.
CountMemocardsByLevel(level) ==
    Cardinality({c \in CardIds : catalog[c] # NoCard /\ catalog[c].level = level
                                 /\ catalog[c].is_active})

\* GroupBy counting the cards answered instead of the responses.
GroupByCards(s, field) ==
    LET joined == SelectSeq(responses, LAMBDA row :
                      row.student_id = s /\ catalog[row.memocard_id] # NoCard)
        keys == {catalog[joined[i].memocard_id][field] : i \in 1..Len(joined)}
        cards(key) == {joined[i].memocard_id :
                          i \in {n \in 1..Len(joined) :
                                    catalog[joined[n].memocard_id][field] = key}}
    IN [key \in keys |->
            LET answered == Cardinality(cards(key))
                correct == Count(joined, LAMBDA row :
                               catalog[row.memocard_id][field] = key /\ row.is_correct)
            IN [answered |-> answered, correct |-> correct,
                accuracy |-> Ratio(correct * 100, answered), total |-> 0]]

\* The $lookup, $unwind, $match and $group stages of the by_difficulty and
\* by_subject pipelines: a response joins the document its memocard_id names
\* now, and is dropped by $unwind when there is none.
GroupBy(s, field) ==
    LET joined == SelectSeq(responses, LAMBDA row :
                      row.student_id = s /\ catalog[row.memocard_id] # NoCard)
        keys == {catalog[joined[i].memocard_id][field] : i \in 1..Len(joined)}
    IN [key \in keys |->
            LET answered == Count(joined, LAMBDA row : catalog[row.memocard_id][field] = key)
                correct == Count(joined, LAMBDA row :
                               catalog[row.memocard_id][field] = key /\ row.is_correct)
            IN [answered |-> answered, correct |-> correct,
                accuracy |-> Ratio(correct * 100, answered), total |-> 0]]

\* calculate_student_progress returning StudentProgress() for a student without
\* responses.
CalculateStudentProgressDefaults(s, total_memocards_by_level) ==
    LET mine == SelectSeq(responses, LAMBDA row : row.student_id = s)
        total_responses == Len(mine)
        answered_memocards == Cardinality({mine[i].memocard_id : i \in 1..Len(mine)})
        correct_answers == Count(mine, LAMBDA row : row.is_correct)
        timed == SelectSeq(mine, LAMBDA row : row.time_spent_seconds.k = "num")
    IN IF total_responses = 0
       THEN [total_memocards |-> 0, answered_memocards |-> 0,
             correct_answers |-> 0, accuracy_rate |-> Zero, average_time_seconds |-> Zero,
             by_difficulty |-> <<>>, by_subject |-> <<>>]
       ELSE [total_memocards |-> total_memocards_by_level,
             answered_memocards |-> answered_memocards,
             correct_answers |-> correct_answers,
             accuracy_rate |-> Ratio(correct_answers * 100, total_responses),
             average_time_seconds |->
                 IF Len(timed) = 0 THEN Zero ELSE Ratio(SumTimes(timed), Len(timed)),
             by_difficulty |-> GroupBy(s, "difficulty"),
             by_subject |-> GroupBy(s, "subject")]

\* calculate_student_progress counting every response as an answered card.
CalculateStudentProgressPerRow(s, total_memocards_by_level) ==
    LET mine == SelectSeq(responses, LAMBDA row : row.student_id = s)
        total_responses == Len(mine)
        answered_memocards == Cardinality({mine[i].memocard_id : i \in 1..Len(mine)})
        correct_answers == Count(mine, LAMBDA row : row.is_correct)
        timed == SelectSeq(mine, LAMBDA row : row.time_spent_seconds.k = "num")
    IN IF total_responses = 0
       THEN [total_memocards |-> total_memocards_by_level, answered_memocards |-> 0,
             correct_answers |-> 0, accuracy_rate |-> Zero, average_time_seconds |-> Zero,
             by_difficulty |-> <<>>, by_subject |-> <<>>]
       ELSE [total_memocards |-> total_memocards_by_level,
             answered_memocards |-> total_responses,
             correct_answers |-> correct_answers,
             accuracy_rate |-> Ratio(correct_answers * 100, total_responses),
             average_time_seconds |->
                 IF Len(timed) = 0 THEN Zero ELSE Ratio(SumTimes(timed), Len(timed)),
             by_difficulty |-> GroupBy(s, "difficulty"),
             by_subject |-> GroupBy(s, "subject")]

\* calculate_student_progress taking the accuracy over the answered cards.
CalculateStudentProgressPerCard(s, total_memocards_by_level) ==
    LET mine == SelectSeq(responses, LAMBDA row : row.student_id = s)
        total_responses == Len(mine)
        answered_memocards == Cardinality({mine[i].memocard_id : i \in 1..Len(mine)})
        correct_answers == Count(mine, LAMBDA row : row.is_correct)
        timed == SelectSeq(mine, LAMBDA row : row.time_spent_seconds.k = "num")
    IN IF total_responses = 0
       THEN [total_memocards |-> total_memocards_by_level, answered_memocards |-> 0,
             correct_answers |-> 0, accuracy_rate |-> Zero, average_time_seconds |-> Zero,
             by_difficulty |-> <<>>, by_subject |-> <<>>]
       ELSE [total_memocards |-> total_memocards_by_level,
             answered_memocards |-> answered_memocards,
             correct_answers |-> correct_answers,
             accuracy_rate |-> Ratio(correct_answers * 100, answered_memocards),
             average_time_seconds |->
                 IF Len(timed) = 0 THEN Zero ELSE Ratio(SumTimes(timed), Len(timed)),
             by_difficulty |-> GroupBy(s, "difficulty"),
             by_subject |-> GroupBy(s, "subject")]

\* calculate_student_progress averaging the time over all the responses.
CalculateStudentProgressAllRows(s, total_memocards_by_level) ==
    LET mine == SelectSeq(responses, LAMBDA row : row.student_id = s)
        total_responses == Len(mine)
        answered_memocards == Cardinality({mine[i].memocard_id : i \in 1..Len(mine)})
        correct_answers == Count(mine, LAMBDA row : row.is_correct)
        timed == SelectSeq(mine, LAMBDA row : row.time_spent_seconds.k = "num")
    IN IF total_responses = 0
       THEN [total_memocards |-> total_memocards_by_level, answered_memocards |-> 0,
             correct_answers |-> 0, accuracy_rate |-> Zero, average_time_seconds |-> Zero,
             by_difficulty |-> <<>>, by_subject |-> <<>>]
       ELSE [total_memocards |-> total_memocards_by_level,
             answered_memocards |-> answered_memocards,
             correct_answers |-> correct_answers,
             accuracy_rate |-> Ratio(correct_answers * 100, total_responses),
             average_time_seconds |->
                 IF Len(timed) = 0 THEN Zero ELSE Ratio(SumTimes(timed), total_responses),
             by_difficulty |-> GroupBy(s, "difficulty"),
             by_subject |-> GroupBy(s, "subject")]

\* ResponseRepository.calculate_student_progress.
CalculateStudentProgress(s, total_memocards_by_level) ==
    LET mine == SelectSeq(responses, LAMBDA row : row.student_id = s)
        total_responses == Len(mine)
        answered_memocards == Cardinality({mine[i].memocard_id : i \in 1..Len(mine)})
        correct_answers == Count(mine, LAMBDA row : row.is_correct)
        timed == SelectSeq(mine, LAMBDA row : row.time_spent_seconds.k = "num")
    IN IF total_responses = 0
       THEN [total_memocards |-> total_memocards_by_level, answered_memocards |-> 0,
             correct_answers |-> 0, accuracy_rate |-> Zero, average_time_seconds |-> Zero,
             by_difficulty |-> <<>>, by_subject |-> <<>>]
       ELSE [total_memocards |-> total_memocards_by_level,
             answered_memocards |-> answered_memocards,
             correct_answers |-> correct_answers,
             accuracy_rate |-> Ratio(correct_answers * 100, total_responses),
             average_time_seconds |->
                 IF Len(timed) = 0 THEN Zero ELSE Ratio(SumTimes(timed), Len(timed)),
             by_difficulty |-> GroupBy(s, "difficulty"),
             by_subject |-> GroupBy(s, "subject")]

\* StudentService.get_student_progress.
GetStudentProgress(s) ==
    /\ reply' = [student_id |-> s,
                 progress |-> CalculateStudentProgress(
                                  s, CountMemocardsByLevel(StudentLevel(s)))]
    /\ UNCHANGED <<catalog, allocated, responses, pc, req, memocard, graded, result,
                   adminOps>>

\* ResponseRepository.get_student_answered_memocard_ids.
AnsweredMemocardIds(s) ==
    {responses[i].memocard_id : i \in {j \in 1..Len(responses) : responses[j].student_id = s}}

\* FindMemocardsForStudent without the $nin on the ids already answered.
FindMemocardsForStudentAgain(student_level, responded_ids) ==
    {c \in CardIds : /\ catalog[c] # NoCard
                     /\ catalog[c].level = student_level
                     /\ catalog[c].is_active}

\* MemocardRepository.find_memocards_for_student, as the set of the ids of
\* the documents returned (first page: skip 0, limit 100).
FindMemocardsForStudent(student_level, responded_ids) ==
    {c \in CardIds : /\ catalog[c] # NoCard
                     /\ catalog[c].level = student_level
                     /\ catalog[c].is_active
                     /\ c \notin responded_ids}

\* MemocardService.get_memocards_for_student(student_id, student_level).
MemocardsForStudent(s, student_level) ==
    /\ student_level \in SCHOOL_LEVELS
    /\ reply' = [student_id |-> s, level |-> student_level,
                 memocards |-> FindMemocardsForStudent(student_level,
                                                       AnsweredMemocardIds(s))]
    /\ UNCHANGED <<catalog, allocated, responses, pc, req, memocard, graded, result,
                   adminOps>>

\* The student route get_memocards_for_student: the level is the one of the
\* caller's profile.
GetMemocardsForStudent(s) ==
    MemocardsForStudent(s, StudentLevel(s))

\* An Optional[str] query parameter: None, or the string given.
None == {}
Some(x) == {x}

\* The documents a query of the memocards collection matches, as their ids.
FindCards(Test(_)) == {c \in CardIds : catalog[c] # NoCard /\ Test(catalog[c])}

\* MemocardRepository.find_memocards_by_level_and_difficulty's query.
FindMemocardsByLevelAndDifficulty(level, difficulty) ==
    FindCards(LAMBDA doc : doc.level \in level /\ doc.difficulty \in difficulty
                           /\ doc.is_active)

\* MemocardRepository.find_memocards_by_level_and_subject's query.
FindMemocardsByLevelAndSubject(level, subject) ==
    FindCards(LAMBDA doc : doc.level \in level /\ doc.subject \in subject /\ doc.is_active)

\* MemocardRepository.find_memocards_by_level_and_chapter's query.
FindMemocardsByLevelAndChapter(level, chapter) ==
    FindCards(LAMBDA doc : doc.level \in level /\ doc.chapter \in chapter /\ doc.is_active)

\* MemocardRepository.find_memocards_by_level's query.
FindMemocardsByLevel(level) ==
    FindCards(LAMBDA doc : doc.level \in level /\ doc.is_active)

\* The pages skip(0).limit(limit) can give of the matching documents: all of
\* them when they are no more than limit, and limit of them otherwise.  Which
\* ones is the order of the cursor (the store's, or created_at where the
\* query sorts); the card documents of the model keep no created_at, and the
\* choice is left open.
Pages(matching, limit) ==
    {page \in SUBSET matching : Cardinality(page) = Min(limit, Cardinality(matching))}

\* MemocardService.get_memocards with skip 0.  The parameters given here are
\* never the empty string, so that "if level" is "level is not None".
GetMemocards(limit, level, difficulty, subject, chapter) ==
    LET query == [limit |-> limit, level |-> level, difficulty |-> difficulty,
                  subject |-> subject, chapter |-> chapter]
        matching ==
            IF level # None /\ difficulty # None
            THEN FindMemocardsByLevelAndDifficulty(level, difficulty)
            ELSE IF level # None /\ subject # None
            THEN FindMemocardsByLevelAndSubject(level, subject)
            ELSE IF level # None /\ chapter # None
            THEN FindMemocardsByLevelAndChapter(level, chapter)
            ELSE IF level # None
            THEN FindMemocardsByLevel(level)
            ELSE FindCards(LAMBDA doc : TRUE)
    IN /\ IF level # None /\ ~(level \subseteq SCHOOL_LEVELS)
          THEN reply' = [query |-> query, error |-> "invalid_level"]
          ELSE IF difficulty # None /\ ~(difficulty \subseteq DIFFICULTY_LEVELS)
          THEN reply' = [query |-> query, error |-> "invalid_difficulty"]
          ELSE \E page \in Pages(matching, limit) :
                   reply' = [query |-> query, memocards |-> page]
       /\ UNCHANGED <<catalog, allocated, responses, pc, req, memocard, graded, result,
                      adminOps>>

(***************************************************************************)
(* The service under concurrent requests.                                  *)
(***************************************************************************)
Answers == {PyBool(TRUE)}
Times == {PyNum(5)}

IdleRequests ==
    /\ pc = [r \in Requests |-> "idle"]
    /\ req = [r \in Requests |-> NoReq]
    /\ memocard = [r \in Requests |-> NoCard]
    /\ graded = [r \in Requests |-> NoGrade]
    /\ result = [r \in Requests |-> "none"]

Init ==
    /\ \E seed \in {NoCard, SeedCard, LegacyCard} :
           catalog = [c \in CardIds |-> IF c = "c1" THEN seed ELSE NoCard]
    /\ allocated = {c \in CardIds : catalog[c] # NoCard}
    /\ responses = <<>>
    /\ IdleRequests
    /\ adminOps = 0
    /\ reply = NoReply

Next ==
    \/ /\ Len(responses) + InFlight < MaxResponses
       /\ \E r \in Requests, s \in Students, c \in CardIds, a \in Answers, t \in Times :
              VerifyAnswerFind(r, s, c, a, t)
    \/ \E r \in Requests : VerifyAnswerCount(r)
    \/ \E r \in Requests : VerifyAnswerInsert(r)
    \/ \E r \in Requests : Respond(r)
    \/ \E c \in CardIds, data \in CreateInputs : CreateMemocard(c, data)
    \/ \E c \in CardIds, data \in UpdateInputs : UpdateMemocard(c, data)
    \/ \E c \in CardIds : DeleteMemocard(c)
    \/ \E s \in Students : GetStudentProgress(s)
    \/ \E s \in Students : GetMemocardsForStudent(s)

Spec == Init /\ [][Next]_vars

(***************************************************************************)
(* Grading explored: one card of each kind in the catalog, one student     *)
(* answering it with every kind of value a JSON body can carry.            *)
(***************************************************************************)
GradeCards ==
    { Card("6e", "easy", "Algebre", "true_false", TRUE, TrueFalseKey(TRUE)),
      Card("6e", "easy", "Algebre", "true_false", TRUE, TrueFalseKey(FALSE)),
      Card("6e", "medium", "Geometrie", "multiple_choice", TRUE,
           ChoiceKey(<<PyNum(0), PyNum(2)>>)),
      Card("6e", "medium", "Geometrie", "multiple_choice", TRUE, ChoiceKey(<<PyNum(1)>>)),
      Card("6e", "medium", "Geometrie", "multiple_choice", TRUE,
           ChoiceKey(<<PyNum(0), PyNum(5)>>)),
      Card("6e", "medium", "Geometrie", "multiple_choice", TRUE, ChoiceKey(<<PyNum(-1)>>)),
      Card("6e", "medium", "Geometrie", "multiple_choice", TRUE, ChoiceKey(<<PyNum(-4)>>)),
      Card("6e", "hard", "Algebre", "text", TRUE, TextKey(<<"P", "a">>, Missing)),
      Card("6e", "hard", "Algebre", "text", TRUE, TextKey(<<"P", "a">>, PyBool(TRUE))),
      Card("6e", "hard", "Algebre", "text", TRUE, TextKey(<<"p", "a">>, PyBool(FALSE))),
      Card("6e", "expert", "Calcul", "numeric", TRUE,
           NumericKey(5, PyNum(1), PyStr(<<"c">>))),
      Card("6e", "expert", "Calcul", "numeric", TRUE, NumericKey(5, Missing, Missing)) }

GradeAnswers ==
    { PyBool(TRUE), PyBool(FALSE), PyNone,
      PyNum(0), PyNum(1), PyNum(4), PyNum(5), PyNum(6), PyNum(7),
      PyStr(<<"P", "a">>), PyStr(<<"p", "a">>), PyStr(<<"P", "A">>),
      PyStr(<<"p", "a", " ">>), PyStr(<<" ", "P", "a">>), PyStr(<<"a", "b">>),
      PyStr(<<" ", "5">>),
      PyList(<<>>), PyList(<<PyNum(0)>>), PyList(<<PyNum(1)>>),
      PyList(<<PyNum(0), PyNum(2)>>), PyList(<<PyNum(2), PyNum(0)>>),
      PyList(<<PyNum(0), PyNum(0), PyNum(2)>>), PyList(<<PyNum(1), PyNum(1)>>),
      PyList(<<PyNum(2), PyNum(1), PyNum(0)>>),
      PyList(<<PyNum(0), PyStr(<<"a">>)>>), PyList(<<PyStr(<<"a">>)>>) }

GradeTimes == {PyNone, PyNum(5), PyNum(-3)}

InitGrade ==
    /\ \E card \in GradeCards :
           catalog = [c \in CardIds |-> IF c = "c1" THEN card ELSE NoCard]
    /\ allocated = {"c1"}
    /\ responses = <<>>
    /\ IdleRequests
    /\ adminOps = 0
    /\ reply = NoReply

NextGrade ==
    \/ /\ Len(responses) < MaxGraded
       /\ \E a \in GradeAnswers, t \in GradeTimes : VerifyAnswerFind(1, "s1", "c1", a, t)
    \/ VerifyAnswerCount(1)
    \/ VerifyAnswerInsert(1)
    \/ Respond(1)

SpecGrade == InitGrade /\ [][NextGrade]_vars

(***************************************************************************)
(* One student answering one card again and again, each call after the     *)
(* one before has returned, and nothing else writing.                      *)
(***************************************************************************)
SeqCards ==
    { SeedCard,
      Card("6e", "expert", "Calcul", "numeric", TRUE, NumericKey(5, PyNum(1), PyStr(<<"c">>))) }

\* The answer the student gives every time: "true" to the true_false card,
\* "ab" to the numeric card.
SeqAnswer == IF catalog["c1"].type = "numeric" THEN PyStr(<<"a", "b">>) ELSE PyBool(TRUE)

InitSeq ==
    /\ \E card \in SeqCards :
           catalog = [c \in CardIds |-> IF c = "c1" THEN card ELSE NoCard]
    /\ allocated = {"c1"}
    /\ responses = <<>>
    /\ IdleRequests
    /\ adminOps = 0
    /\ reply = NoReply

NextSeq ==
    \/ /\ Len(responses) < MaxSeq
       /\ VerifyAnswerFind(1, "s1", "c1", SeqAnswer, PyNum(5))
    \/ VerifyAnswerCount(1)
    \/ VerifyAnswerInsert(1)
    \/ Respond(1)

SpecSeq == InitSeq /\ [][NextSeq]_vars

(***************************************************************************)
(* The catalog administered: one card stored, an administrator creating,   *)
(* updating, deleting and listing cards, students answering and listing    *)
(* them, each call after the one before has returned.                      *)
(***************************************************************************)
CatalogCreates ==
    { Card("6e", "expert", "Calcul", "numeric", TRUE, NumericKey(5, PyNum(-1), Missing)),
      Card("6e", "expert", "Calcul", "numeric", TRUE, NumericKey(5, PyNum(1), Missing)),
      Card("5e", "easy", "Algebre", "true_false", FALSE, TrueFalseKey(TRUE)) }

\* Bodies of PUT /memocards/{id}, with the keys the administrator sends.
CatalogUpdates ==
    { [type |-> "numeric", difficulty |-> "hard"],
      [content |-> TextKey(<<"P", "a">>, Missing)],
      [is_active |-> FALSE] }

CatalogAnswers == {PyNum(5)}

\* Query parameters of GET /memocards, and the levels student profiles hold.
LimitParams == {1, DefaultLimit}
LevelParams == {None, Some("6e"), Some("7e")}
DifficultyParams == {None, Some("hard"), Some("trivial")}
SubjectParams == {None, Some("Calcul")}
ChapterParams == {None, Some("ch2")}
ProfileLevels == {"6e", "5e"}

InitCatalog ==
    /\ catalog = [c \in CardIds |-> IF c = "c1" THEN SeedCard ELSE NoCard]
    /\ allocated = {"c1"}
    /\ responses = <<>>
    /\ IdleRequests
    /\ adminOps = 0
    /\ reply = NoReply

NextCatalog ==
    \/ /\ Len(responses) < MaxGraded
       /\ \E s \in Students, c \in CardIds, a \in CatalogAnswers :
              VerifyAnswerFind(1, s, c, a, PyNum(5))
    \/ VerifyAnswerCount(1)
    \/ VerifyAnswerInsert(1)
    \/ Respond(1)
    \/ /\ pc[1] = "idle"
       /\ \E c \in CardIds, data \in CatalogCreates : CreateMemocard(c, data)
    \/ /\ pc[1] = "idle"
       /\ \E c \in CardIds, data \in CatalogUpdates : UpdateMemocard(c, data)
    \/ /\ pc[1] = "idle"
       /\ \E c \in CardIds : DeleteMemocard(c)
    \/ /\ pc[1] = "idle"
       /\ \E s \in Students, level \in ProfileLevels : MemocardsForStudent(s, level)
    \/ /\ pc[1] = "idle"
       /\ \E limit \in LimitParams, level \in LevelParams, difficulty \in DifficultyParams,
             subject \in SubjectParams, chapter \in ChapterParams :
              GetMemocards(limit, level, difficulty, subject, chapter)

SpecCatalog == InitCatalog /\ [][NextCatalog]_vars

(***************************************************************************)
(* Properties.                                                             *)
(***************************************************************************)
LastRow == responses[Len(responses)]

\* The responses stored before row i by the same student for the same card.
PriorCount(i) ==
    Cardinality({j \in 1..(i - 1) :
                    SamePair(responses[j], responses[i].student_id, responses[i].memocard_id)})

\* C1: with calls made one after another and no other writer, every stored
\* response carries attempts = 1 + the number of responses stored before it for
\* the same student and card, however many there are.
AttemptsCountEveryPrior ==
    \A i \in 1..Len(responses) : responses[i].attempts = PriorCount(i) + 1

\* C2: the ledger is append-only: no step of any operation (a submission, a
\* progress query, a card listing, a catalog create, update or delete) removes
\* or changes a response that is stored.
LedgerAppendOnly ==
    [][/\ Len(responses') >= Len(responses)
       /\ \A i \in 1..Len(responses) : responses'[i] = responses[i]]_vars

\* C2 witness: two responses are stored for a card that has since been deleted.
OrphansKept ==
    /\ Len(responses) >= 2
    /\ \A i \in 1..Len(responses) : catalog[responses[i].memocard_id] = NoCard

\* C3: nothing serialises the count read and the insert: a request that holds
\* a count is never kept from inserting, whatever has been stored for its
\* student and card since it read.
InsertNeverWaits ==
    \A r \in Requests : pc[r] = "inserting" => ENABLED VerifyAnswerInsert(r)

\* C3 witness: two stored responses of one student to one card with the same
\* attempts value.
DuplicateAttempts ==
    \E i, j \in 1..Len(responses) :
        /\ i < j
        /\ SamePair(responses[j], responses[i].student_id, responses[i].memocard_id)
        /\ responses[i].attempts = responses[j].attempts

\* Whether an answer has the shape the card type expects.
AnswerFits(type, answer) ==
    CASE type = "true_false" -> answer.k = "bool"
      [] type = "multiple_choice" -> answer.k = "num" \/ IsListOf(answer, "num")
      [] type = "text" -> answer.k = "str"
      [] type = "numeric" -> Float(answer).error = "none"
      [] OTHER -> FALSE

ErrorCodes == {"memocard_not_found", "inactive_memocard", "unknown_memocard_type"}

\* C5: a call fails with memocard_not_found when no card has the id, with
\* inactive_memocard when the card is there and not active, and goes on to the
\* count otherwise; a call that got that far fails with unknown_memocard_type
\* exactly when the card's type is none of the four; and a step that ends a
\* call with one of these errors changes neither the ledger nor the catalog.
FailuresLeaveStoresAlone ==
    [][\A r \in Requests :
          /\ (pc[r] = "idle" /\ pc'[r] # "idle")
                 => LET card == catalog[req'[r].memocard_id]
                    IN IF card = NoCard
                       THEN pc'[r] = "done" /\ result'[r] = "memocard_not_found"
                       ELSE IF ~card.is_active
                       THEN pc'[r] = "done" /\ result'[r] = "inactive_memocard"
                       ELSE pc'[r] = "counting"
          /\ (pc[r] = "counting" /\ pc'[r] # "counting")
                 => (memocard[r].type \notin MEMOCARD_TYPES
                        <=> (pc'[r] = "done" /\ result'[r] = "unknown_memocard_type"))
          /\ (pc[r] # "done" /\ pc'[r] = "done" /\ result'[r] \in ErrorCodes)
                 => UNCHANGED <<responses, catalog>>]_vars

\* C5 witness: one call has failed on a card of an unknown type and another on
\* an inactive card.
TwoKindsOfFailure ==
    \E r, q \in Requests :
        /\ pc[r] = "done" /\ result[r] = "unknown_memocard_type"
        /\ pc[q] = "done" /\ result[q] = "inactive_memocard"

\* The call of the grading specification has completed on a card of this type.
GradedCall(type) == pc[1] = "done" /\ catalog["c1"].type = type

Elements(l) == {l[i] : i \in 1..Len(l)}

\* C6: an answer of the wrong shape for a true_false, multiple_choice or text
\* card is rejected before grading: the call does not end "ok" and stores no
\* response.
MalformedAnswersRejected ==
    \A type \in {"true_false", "multiple_choice", "text"} :
        (GradedCall(type) /\ ~AnswerFits(type, req[1].answer))
            => (result[1] # "ok" /\ Len(responses) = 0)

\* C7: on a multiple_choice card, an answer that is a list of indices (an index
\* may occur more than once) or one index is stored, and is stored correct
\* exactly when the set of its indices equals the set of correct_options.
ChoiceComparedAsSets ==
    (GradedCall("multiple_choice") /\ AnswerFits("multiple_choice", req[1].answer))
        => LET answer == req[1].answer
               submitted == IF answer.k = "list" THEN Elements(answer.v) ELSE {answer}
           IN /\ result[1] = "ok"
              /\ LastRow.is_correct
                     <=> submitted = Elements(catalog["c1"].content.correct_options.v)

\* The lists that hold the elements of l in another order, l included.
Reorderings(l) ==
    {[i \in 1..Len(l) |-> l[p[i]]] :
        p \in {q \in [1..Len(l) -> 1..Len(l)] : \A i, j \in 1..Len(l) : q[i] = q[j] => i = j}}

\* C8: on a multiple_choice card the order of the submitted list does not
\* matter: every reordering of the list submitted is graded to the same
\* outcome, and when the call stored a response, to the is_correct and the
\* feedback it stored.
ChoiceOrderIrrelevant ==
    (GradedCall("multiple_choice") /\ req[1].answer.k = "list")
        => \A l \in Reorderings(req[1].answer.v) :
              LET g == Grade(catalog["c1"], PyList(l))
              IN /\ (g.error = "none") <=> (result[1] = "ok")
                 /\ result[1] = "ok"
                        => /\ g.is_correct = LastRow.is_correct
                           /\ g.feedback = LastRow.feedback

\* C8 witness: a list that names the correct options in another order than the
\* card does is stored as correct.
ReorderedChoiceStored ==
    /\ GradedCall("multiple_choice") /\ result[1] = "ok"
    /\ req[1].answer.k = "list"
    /\ req[1].answer.v # catalog["c1"].content.correct_options.v
    /\ Len(req[1].answer.v) = 2
    /\ LastRow.is_correct

\* C9: on a true_false card with a boolean key, a boolean answer x is stored
\* with is_correct = (x = correct_answer), and the feedback of a wrong answer
\* names the correct boolean, "Vrai" for true and "Faux" for false.
TrueFalseCompared ==
    (GradedCall("true_false") /\ req[1].answer.k = "bool")
        => LET key == catalog["c1"].content.correct_answer
           IN /\ result[1] = "ok"
              /\ LastRow.is_correct = (req[1].answer.v = key.v)
              /\ ~LastRow.is_correct
                     => LastRow.feedback
                            = WrongPrefix \o (IF key.v THEN <<"Vrai">> ELSE <<"Faux">>)

\* C9 witness: "true" was answered to a card whose key is false.
WrongBooleanStored ==
    /\ GradedCall("true_false") /\ result[1] = "ok"
    /\ req[1].answer = PyBool(TRUE)
    /\ catalog["c1"].content.correct_answer = PyBool(FALSE)
    /\ ~LastRow.is_correct
    /\ LastRow.feedback[Len(LastRow.feedback)] = "Faux"

\* C10: on a text card a string answer is stored; when case_sensitive is false
\* or missing it is correct exactly when its lowercase form equals the
\* lowercase form of the stored answer, otherwise exactly when the two strings
\* are identical; nothing is trimmed, so an answer that differs from the stored
\* one by surrounding whitespace is incorrect.
TextCompared ==
    (GradedCall("text") /\ req[1].answer.k = "str")
        => LET content == catalog["c1"].content
               a == req[1].answer.v
               stored == content.correct_answer.v
               exact == content.case_sensitive = PyBool(TRUE)
           IN /\ result[1] = "ok"
              /\ LastRow.is_correct
                     <=> IF exact THEN a = stored ELSE Lower(a) = Lower(stored)
              /\ (Strip(a) # a /\ Strip(stored) = stored) => ~LastRow.is_correct

\* C10 witness: an answer in another case is stored as correct on a card that
\* is not case sensitive.
OtherCaseStored ==
    /\ GradedCall("text") /\ result[1] = "ok"
    /\ catalog["c1"].content.case_sensitive # PyBool(TRUE)
    /\ req[1].answer.v # catalog["c1"].content.correct_answer.v
    /\ LastRow.is_correct

\* C11: on a numeric card an answer that parses as a number is stored, and is
\* stored correct exactly when it lies within tolerance of correct_answer, the
\* boundary included; a missing tolerance is 0, and then only the exact value
\* is correct.
NumericWithinTolerance ==
    (GradedCall("numeric") /\ Float(req[1].answer).error = "none")
        => LET content == catalog["c1"].content
               x == Float(req[1].answer).value
               c == content.correct_answer.v
               t == IF content.tolerance.k = "num" THEN content.tolerance.v ELSE 0
           IN /\ result[1] = "ok"
              /\ LastRow.is_correct <=> (x - c <= t /\ c - x <= t)

\* C11 witness: an answer exactly tolerance away from correct_answer is stored
\* as correct.
BoundaryAnswerStored ==
    /\ GradedCall("numeric") /\ result[1] = "ok"
    /\ catalog["c1"].content.tolerance = PyNum(1)
    /\ req[1].answer \in {PyNum(4), PyNum(6)}
    /\ LastRow.is_correct

Tolerances == 0..3

WithTolerance(card, t) == [card EXCEPT !.content.tolerance = PyNum(t)]

\* C12: numeric grading is monotonic in tolerance: an answer stored as correct
\* is graded correct on the same card with any larger tolerance, and an answer
\* stored as incorrect is graded incorrect with any smaller one.
NumericMonotonic ==
    (GradedCall("numeric") /\ result[1] = "ok")
        => LET card == catalog["c1"]
               t == IF card.content.tolerance.k = "num" THEN card.content.tolerance.v ELSE 0
           IN \A u \in Tolerances :
                  /\ (LastRow.is_correct /\ t <= u)
                         => Grade(WithTolerance(card, u), req[1].answer).is_correct
                  /\ (~LastRow.is_correct /\ u <= t)
                         => ~Grade(WithTolerance(card, u), req[1].answer).is_correct

\* C12 witness: an answer is stored as correct that the same card with a
\* smaller tolerance grades incorrect.
ToleranceMatters ==
    /\ GradedCall("numeric") /\ result[1] = "ok"
    /\ LastRow.is_correct
    /\ ~Grade(WithTolerance(catalog["c1"], 0), req[1].answer).is_correct

\* C13: on a numeric card an answer that does not parse as a number never
\* makes the call fail: it is stored as incorrect with the "must be a number"
\* feedback, and with attempts = 1 + the number of responses stored before it
\* for the same student and card.
UnparseableAnswerStored ==
    (pc[1] = "done" /\ catalog["c1"].type = "numeric" /\ Float(req[1].answer).error # "none")
        => /\ result[1] = "ok"
           /\ ~LastRow.is_correct
           /\ LastRow.feedback = NotANumber
           /\ LastRow.attempts = PriorCount(Len(responses)) + 1

\* The reply is a progress report, computed in this state.
IsProgress == "progress" \in DOMAIN reply

\* The positions of the responses of student s in the ledger.
Mine(s) == {i \in 1..Len(responses) : responses[i].student_id = s}

\* C15: the progress of a student without responses has total_memocards = the
\* number of active cards of the student's level that was supplied, zero
\* answered_memocards, correct_answers, accuracy_rate and average_time_seconds,
\* and empty by_difficulty and by_subject.
ProgressWithoutResponses ==
    (IsProgress /\ Mine(reply.student_id) = {})
        => LET p == reply.progress
               supplied == Cardinality({c \in CardIds :
                               /\ catalog[c] # NoCard
                               /\ catalog[c].level = StudentLevel(reply.student_id)
                               /\ catalog[c].is_active})
           IN /\ p.total_memocards = supplied
              /\ p.answered_memocards = 0 /\ p.correct_answers = 0
              /\ p.accuracy_rate = Zero /\ p.average_time_seconds = Zero
              /\ DOMAIN p.by_difficulty = {} /\ DOMAIN p.by_subject = {}

\* C15 witness: a student without responses is shown one card in total while
\* another student's response is stored.
EmptyProgressShown ==
    /\ IsProgress /\ Mine(reply.student_id) = {}
    /\ Len(responses) >= 1
    /\ reply.progress.total_memocards = 1

\* C16: answered_memocards is the number of distinct cards among the student's
\* responses, whether the cards are still in the catalog and active or not.
AnsweredCountsDistinctCards ==
    IsProgress
        => reply.progress.answered_memocards
               = Cardinality({c \in CardIds :
                     \E i \in Mine(reply.student_id) : responses[i].memocard_id = c})

\* C16 witness: two responses of the student to one card, since deleted, are
\* reported as one answered card.
RepeatsCountOnce ==
    /\ IsProgress
    /\ Cardinality(Mine(reply.student_id)) = 2
    /\ \A i \in Mine(reply.student_id) : catalog[responses[i].memocard_id] = NoCard
    /\ reply.progress.answered_memocards = 1

\* C17: for a student with a response, correct_answers is the number of the
\* student's responses with is_correct true and accuracy_rate is correct_answers
\* divided by the number of the student's responses, times 100.
CorrectOverAllResponses ==
    (IsProgress /\ Mine(reply.student_id) # {})
        => LET p == reply.progress
               total == Cardinality(Mine(reply.student_id))
               correct == Cardinality({i \in Mine(reply.student_id) : responses[i].is_correct})
           IN /\ p.correct_answers = correct
              /\ p.accuracy_rate.den > 0
              /\ p.accuracy_rate.num * total = correct * 100 * p.accuracy_rate.den

\* C17 witness: correct_answers exceeds answered_memocards.
MoreCorrectThanAnswered ==
    /\ IsProgress
    /\ reply.progress.correct_answers > reply.progress.answered_memocards

(***************************************************************************)
(* Two students answering two cards, one call after the other, with or     *)
(* without a time, while an administrator reclassifies the first card;     *)
(* progress reports are asked for between the calls.                       *)
(***************************************************************************)
MaxLedger == 2

ProgressAnswers == {PyBool(TRUE), PyNum(5)}
ProgressTimes == {PyNone, PyNum(8)}
Reclassify == [difficulty |-> "hard", subject |-> "Calcul"]

InitProgress ==
    /\ catalog = [c \in CardIds |->
                     IF c = "c1" THEN SeedCard
                     ELSE Card("6e", "expert", "Geometrie", "numeric", TRUE,
                               NumericKey(5, PyNum(1), Missing))]
    /\ allocated = CardIds
    /\ responses = <<>>
    /\ IdleRequests
    /\ adminOps = 0
    /\ reply = NoReply

NextProgress ==
    \/ /\ Len(responses) < MaxLedger
       /\ \E s \in Students, c \in CardIds, a \in ProgressAnswers, t \in ProgressTimes :
              VerifyAnswerFind(1, s, c, a, t)
    \/ VerifyAnswerCount(1)
    \/ VerifyAnswerInsert(1)
    \/ Respond(1)
    \/ UpdateMemocard("c1", Reclassify)
    \/ /\ pc[1] = "idle"
       /\ \E s \in Students : GetStudentProgress(s)

SpecProgress == InitProgress /\ [][NextProgress]_vars

\* C14: grading depends on the card's type and content and on the answer
\* only: two stored responses to one card (whose type and content never
\* change here) with the same answer have the same is_correct and the same
\* feedback, whoever gave them, with or without a time, at whatever attempt and
\* whatever else the ledger holds.
GradingIsPure ==
    \A i, j \in 1..Len(responses) :
        ( /\ responses[i].memocard_id = responses[j].memocard_id
          /\ responses[i].answer = responses[j].answer )
            => /\ responses[i].is_correct = responses[j].is_correct
               /\ responses[i].feedback = responses[j].feedback

\* C14 witness: the same right answer to one card is stored at two different
\* attempts, once with a time and once without.
SameVerdictTwice ==
    \E i, j \in 1..Len(responses) :
        /\ responses[i].memocard_id = responses[j].memocard_id
        /\ responses[i].answer = responses[j].answer
        /\ responses[i].attempts # responses[j].attempts
        /\ responses[i].time_spent_seconds = Missing
        /\ responses[j].time_spent_seconds # Missing
        /\ responses[i].is_correct /\ responses[j].is_correct

\* The responses of student s to cards that now have value k in field.
Under(s, field, k) ==
    {i \in Mine(s) : /\ catalog[responses[i].memocard_id] # NoCard
                     /\ catalog[responses[i].memocard_id][field] = k}

GroupedByCurrent(s, field, groups) ==
    /\ DOMAIN groups = {catalog[c][field] :
                           c \in {d \in CardIds : /\ catalog[d] # NoCard
                                                  /\ \E i \in Mine(s) : responses[i].memocard_id = d}}
    /\ \A k \in DOMAIN groups :
           /\ groups[k].answered = Cardinality(Under(s, field, k))
           /\ groups[k].correct
                  = Cardinality({i \in Under(s, field, k) : responses[i].is_correct})

\* The groups of the report computed for student s in this state.
ReportGroupedByCurrent(s) ==
    /\ GroupedByCurrent(s, "difficulty", CalculateStudentProgress(s, 0).by_difficulty)
    /\ GroupedByCurrent(s, "subject", CalculateStudentProgress(s, 0).by_subject)

\* C18: by_difficulty and by_subject group a student's responses by the value
\* the card has in the catalog when the report is computed, with answered the
\* number of these responses and correct the number of them with is_correct
\* true: every report given is grouped so, and when a step changes the
\* difficulty or the subject of a card, the report computed right after it
\* counts the responses stored before the step under the new value and none
\* of them under the old one.
GroupsFollowCatalog ==
    /\ [](IsProgress
             => /\ GroupedByCurrent(reply.student_id, "difficulty",
                                    reply.progress.by_difficulty)
                /\ GroupedByCurrent(reply.student_id, "subject", reply.progress.by_subject))
    /\ [][\A c \in CardIds :
              ( /\ catalog[c] # NoCard /\ catalog'[c] # NoCard
                /\ \/ catalog'[c].difficulty # catalog[c].difficulty
                   \/ catalog'[c].subject # catalog[c].subject )
                  => /\ responses' = responses
                     /\ \A s \in Students : ReportGroupedByCurrent(s)']_vars

\* C18 witness: a report shows both responses of a student under "hard" and
\* "Calcul", the values an update gave the card, and under nothing else.
ReclassifiedResponsesShown ==
    /\ IsProgress
    /\ Cardinality(Mine(reply.student_id)) = 2
    /\ \A i \in Mine(reply.student_id) : responses[i].memocard_id = "c1"
    /\ catalog["c1"].difficulty = "hard"
    /\ DOMAIN reply.progress.by_difficulty = {"hard"}
    /\ reply.progress.by_difficulty["hard"].answered = 2
    /\ reply.progress.by_difficulty["hard"].correct = 1
    /\ DOMAIN reply.progress.by_subject = {"Calcul"}

RECURSIVE SumOfTimes(_)
SumOfTimes(rows) ==
    IF rows = {} THEN 0
    ELSE LET i == CHOOSE j \in rows : TRUE
         IN responses[i].time_spent_seconds.v + SumOfTimes(rows \ {i})

\* C19: average_time_seconds is the mean of time_spent_seconds over the
\* student's responses that recorded a time; the others enter neither the sum
\* nor the count, and without a timed response the value is 0.
AverageOverTimedResponses ==
    IsProgress
        => LET timed == {i \in Mine(reply.student_id) :
                            responses[i].time_spent_seconds \notin {Missing, PyNone}}
               avg == reply.progress.average_time_seconds
           IN IF timed = {} THEN avg = Zero
              ELSE /\ avg.den > 0
                   /\ avg.num * Cardinality(timed) = SumOfTimes(timed) * avg.den

\* C19 witness: of a student's two responses one recorded a time, and the
\* average is that time.
UntimedResponseLeftOut ==
    /\ IsProgress
    /\ Cardinality(Mine(reply.student_id)) = 2
    /\ \E i \in Mine(reply.student_id) :
           /\ responses[i].time_spent_seconds = PyNum(8)
           /\ \A j \in Mine(reply.student_id) \ {i} : responses[j].time_spent_seconds = Missing
    /\ reply.progress.average_time_seconds = [num |-> 8, den |-> 1]

\* The fields of a response that the caller gave or the grading computed.
Given(row) ==
    [student_id |-> row.student_id, memocard_id |-> row.memocard_id, answer |-> row.answer,
     is_correct |-> row.is_correct, feedback |-> row.feedback, attempts |-> row.attempts,
     time_spent_seconds |-> row.time_spent_seconds]

\* C20: right after verify_answer has stored a response, the list that
\* find_responses_by_student_and_memocard returns for its student and card
\* holds a row with the student_id, memocard_id, answer, is_correct, feedback,
\* attempts and time_spent_seconds that were stored, however many responses
\* the student has given to the card.
StoredResponseIsListed ==
    [][\A r \in Requests :
          (pc[r] = "inserting" /\ pc'[r] = "done")
              => \E k \in 1..Len(FindResponsesByStudentAndMemocard(
                                     req[r].student_id, req[r].memocard_id)') :
                     Given(FindResponsesByStudentAndMemocard(
                               req[r].student_id, req[r].memocard_id)'[k])
                         = Given(ResponseData(r))]_vars

\* C20 witness: the response just stored is listed although more responses of
\* the student to the card are stored than one page holds.
ListedBeyondOnePage ==
    /\ pc[1] = "done" /\ result[1] = "ok"
    /\ Len(responses) > DefaultLimit
    /\ \A i \in 1..Len(responses) :
           SamePair(responses[i], req[1].student_id, req[1].memocard_id)
    /\ FindResponsesByStudentAndMemocard(req[1].student_id, req[1].memocard_id)[1] = LastRow

(***************************************************************************)
(* The catalog: what create, update and the listings leave and return.     *)
(***************************************************************************)
\* C21: after any sequence of creations and updates, the content of every
\* stored card validates against the content model of the card's type; an
\* update that supplies new content cannot leave a card whose content has
\* the shape of another type.
StoredContentValid ==
    \A c \in CardIds :
        catalog[c] # NoCard => ContentValid(catalog[c].type, catalog[c].content)

\* C22: the type of a card never changes after its creation, whatever the
\* body of an update holds: a step that leaves a card stored leaves its type.
TypeNeverChanges ==
    [][\A c \in CardIds :
           (catalog[c] # NoCard /\ catalog'[c] # NoCard)
               => catalog'[c].type = catalog[c].type]_vars

\* The update whose body named another type has been applied: the card has
\* the difficulty of that body, and the type it was created with.
TypeKeptThroughUpdate ==
    /\ catalog["c1"] # NoCard
    /\ catalog["c1"].difficulty = "hard"
    /\ catalog["c1"].type = SeedCard.type

\* The reply is a student's list of cards to answer, computed in this state.
IsStudentListing == "memocards" \in DOMAIN reply /\ "student_id" \in DOMAIN reply

\* The student of the reply has a response to card c.
AnsweredBy(s, c) ==
    \E i \in 1..Len(responses) :
        responses[i].student_id = s /\ responses[i].memocard_id = c

\* C23: get_memocards_for_student returns the cards that are active, of the
\* student's level and without a response of the student, and no other: a
\* card the student has answered is not returned to that student, and is
\* returned to the students of the level who have not answered it.
OnlyUnansweredCardsListed ==
    IsStudentListing
        => \A c \in CardIds :
               c \in reply.memocards
                   <=> /\ catalog[c] # NoCard
                       /\ catalog[c].is_active
                       /\ catalog[c].level = reply.level
                       /\ ~AnsweredBy(reply.student_id, c)

\* A student of the level of an active card has answered it and asks for the
\* list: the card is not in it.
AnsweredCardNotListed ==
    /\ IsStudentListing
    /\ \E c \in CardIds :
           /\ catalog[c] # NoCard
           /\ catalog[c].is_active
           /\ catalog[c].level = reply.level
           /\ AnsweredBy(reply.student_id, c)
           /\ c \notin reply.memocards

\* The reply is the administrator's list of cards, computed in this state.
IsCatalogListing == "memocards" \in DOMAIN reply /\ "query" \in DOMAIN reply

\* C24: get_memocards returns only cards that match every filter supplied,
\* for every combination of level, difficulty, subject and chapter, and at
\* most limit cards.
ListingMatchesEveryFilter ==
    IsCatalogListing
        => /\ Cardinality(reply.memocards) <= reply.query.limit
           /\ \A c \in reply.memocards :
                  /\ catalog[c] # NoCard
                  /\ reply.query.level # None => catalog[c].level \in reply.query.level
                  /\ reply.query.difficulty # None
                         => catalog[c].difficulty \in reply.query.difficulty
                  /\ reply.query.subject # None => catalog[c].subject \in reply.query.subject
                  /\ reply.query.chapter # None => catalog[c].chapter \in reply.query.chapter

\* C25: every numeric card that create or update can store has a tolerance
\* of at least 0, so that an answer equal to correct_answer is graded
\* correct.
ToleranceNeverNegative ==
    \A c \in CardIds :
        (/\ catalog[c] # NoCard
         /\ catalog[c].type = "numeric"
         /\ ContentValid("numeric", catalog[c].content))
            => /\ NumOf(Get(catalog[c].content.tolerance, PyNum(0))) >= 0
               /\ Grade(catalog[c], catalog[c].content.correct_answer).is_correct

(***************************************************************************)
(* What verify_answer stores of a submission.                              *)
(***************************************************************************)
\* C26: every stored response has no time_spent_seconds or a non-negative
\* integer one: a negative time submitted is never stored.
TimeNeverNegative ==
    \A i \in 1..Len(responses) :
        \/ responses[i].time_spent_seconds = Missing
        \/ /\ responses[i].time_spent_seconds.k = "num"
           /\ responses[i].time_spent_seconds.v >= 0

\* The texts of the options a list of indices names: options[i] for each
\* index i of the list that is an index of options, in the order of the list.
NamedOptions(content) ==
    LET named == SelectSeq(content.correct_options.v,
                           LAMBDA i : 0 <= i.v /\ i.v < Len(content.options.v))
    IN [j \in 1..Len(named) |-> content.options.v[named[j].v + 1].v]

\* C27: a multiple_choice answer graded incorrect gets the feedback that
\* lists the text of the option of every index in correct_options, and of no
\* other option, joined by ", "; this for every stored correct_options list,
\* those with indices outside the options list included: the call is graded,
\* and the feedback names the options that the list indexes.
ChoiceFeedbackNamesCorrectOptions ==
    (GradedCall("multiple_choice") /\ AnswerFits("multiple_choice", req[1].answer))
        => /\ result[1] = "ok"
           /\ ~LastRow.is_correct
                  => LastRow.feedback
                         = WrongPrefix \o Join(NamedOptions(catalog["c1"].content),
                                               <<",", " ">>)

\* C28: the answer stored is the answer submitted, unchanged, for every type
\* of card; a text answer to a card that is not case sensitive keeps the
\* casing it was submitted with.
AnswerStoredAsSubmitted ==
    (pc[1] = "done" /\ result[1] = "ok") => LastRow.answer = req[1].answer

(***************************************************************************)
(* The figures of one progress report against each other.                  *)
(***************************************************************************)
\* The sum of one figure over the groups of a breakdown.
RECURSIVE SumOver(_, _)
SumOver(groups, figure) ==
    IF DOMAIN groups = {} THEN 0
    ELSE LET k == CHOOSE key \in DOMAIN groups : TRUE
         IN groups[k][figure]
                + SumOver([key \in DOMAIN groups \ {k} |-> groups[key]], figure)

\* C29: in every report, also after cards that were answered have been
\* deleted, the answered figures of the by_difficulty groups add up to the
\* number of the student's responses, and so do those of the by_subject
\* groups; the correct figures of either breakdown add up to correct_answers.
BreakdownsAddUp ==
    IsProgress
        => LET p == reply.progress
               total == Cardinality(Mine(reply.student_id))
           IN /\ SumOver(p.by_difficulty, "answered") = total
              /\ SumOver(p.by_subject, "answered") = total
              /\ SumOver(p.by_difficulty, "correct") = p.correct_answers
              /\ SumOver(p.by_subject, "correct") = p.correct_answers

\* C30: in every report answered_memocards is at most total_memocards,
\* after any sequence of submissions, deactivations, deletions and changes
\* of level.
AnsweredWithinTotal ==
    IsProgress => reply.progress.answered_memocards <= reply.progress.total_memocards
====
